---- MODULE Spec2Model ----
(***************************************************************************)
(* Model of cadquerywrapper: the rule evaluator (validator.py), the        *)
(* measurement probes (validator.py) and the validating export wrappers    *)
(* (save_validator.py, project.py).                                        *)
(*                                                                         *)
(* Strings are tuples of one-character strings, so that str.lower(),       *)
(* str.lstrip("."), str.replace("_", " "), str.capitalize() and            *)
(* Path.suffix are computed and not assumed.  Numbers are integers.        *)
(***************************************************************************)
EXTENDS Integers, Sequences, FiniteSets, TLC

VARIABLES
    rules,      \* validator.rules["rules"]: the rule mapping, in file order
    obj,        \* the CAD object: what its capabilities answer
    attached,   \* obj._printability_model, None when nothing is attached
    files,      \* the file system: file name -> file
    call,       \* the last operation and its arguments
    outcome,    \* how it ended: the exception raised, if any, and its message
    result,     \* what validate() returned, for a call of validate()
    writes,     \* the calls of the underlying writer it made, in order
    probes      \* the capability probes it invoked, in order

vars == <<rules, obj, attached, files, call, outcome, result, writes, probes>>

-----------------------------------------------------------------------------
(* Characters and Python's string methods.                                 *)

LowerCase == <<"a","b","c","d","e","f","g","h","i","j","k","l","m","n","o","p","q","r","s","t","u","v","w","x","y","z">>
UpperCase == <<"A","B","C","D","E","F","G","H","I","J","K","L","M","N","O","P","Q","R","S","T","U","V","W","X","Y","Z">>

\* The characters in code point order, for the ordering of str < str.
CodePoints == <<" ", ".">> \o UpperCase \o <<"_">> \o LowerCase

IndexIn(seq, c) == CHOOSE i \in 1..Len(seq) : seq[i] = c

IsUpper(c) == \E i \in 1..Len(UpperCase) : UpperCase[i] = c
IsLower(c) == \E i \in 1..Len(LowerCase) : LowerCase[i] = c

LowerChar(c) == IF IsUpper(c) THEN LowerCase[IndexIn(UpperCase, c)] ELSE c
UpperChar(c) == IF IsLower(c) THEN UpperCase[IndexIn(LowerCase, c)] ELSE c

\* str.lower()
Lower(s) == [i \in 1..Len(s) |-> LowerChar(s[i])]

\* str.upper()
Upper(s) == [i \in 1..Len(s) |-> UpperChar(s[i])]

\* str.replace("_", " ")
ReplaceUnderscore(s) == [i \in 1..Len(s) |-> IF s[i] = "_" THEN " " ELSE s[i]]

\* str.capitalize(): first character upper-cased, the rest lower-cased
Capitalize(s) == [i \in 1..Len(s) |-> IF i = 1 THEN UpperChar(s[i]) ELSE LowerChar(s[i])]

\* str.lstrip("."): every leading dot is removed
RECURSIVE LStripDots(_)
LStripDots(s) ==
    IF s # <<>> /\ Head(s) = "." THEN LStripDots(Tail(s)) ELSE s

\* str.rfind("."): 0 when there is no dot (positions count from 1 here)
RFindDot(s) ==
    IF \E i \in 1..Len(s) : s[i] = "."
    THEN CHOOSE i \in 1..Len(s) : s[i] = "." /\ \A j \in (i+1)..Len(s) : s[j] # "."
    ELSE 0

\* pathlib's PurePath.suffix of a single-component path: the text from the
\* last dot on, unless that dot is the first or the last character
Suffix(name) ==
    LET i == RFindDot(name)
    IN  IF 1 < i /\ i < Len(name) THEN SubSeq(name, i, Len(name)) ELSE <<>>

Ord(c) == IndexIn(CodePoints, c)

\* str < str
RECURSIVE StrLess(_, _)
StrLess(s, t) ==
    IF t = <<>> THEN FALSE
    ELSE IF s = <<>> THEN TRUE
    ELSE IF Head(s) = Head(t) THEN StrLess(Tail(s), Tail(t))
    ELSE Ord(Head(s)) < Ord(Head(t))

-----------------------------------------------------------------------------
(* Rule names (the keys of the "rules" mapping).                           *)

K_WALL == <<"m","i","n","i","m","u","m","_","w","a","l","l","_","t","h","i","c","k","n","e","s","s","_","m","m">>
K_SIZE == <<"m","a","x","_","m","o","d","e","l","_","s","i","z","e","_","m","m">>
K_TRI == <<"m","a","x","i","m","u","m","_","f","i","l","e","_","t","r","i","a","n","g","l","e","_","c","o","u","n","t">>
K_MANIFOLD == <<"m","a","n","i","f","o","l","d","_","g","e","o","m","e","t","r","y","_","r","e","q","u","i","r","e","d">>
K_OPEN == <<"n","o","_","o","p","e","n","_","e","d","g","e","s">>
K_INTERSECT == <<"n","o","_","i","n","t","e","r","s","e","c","t","i","n","g","_","g","e","o","m","e","t","r","y">>
K_CLEAR == <<"m","i","n","i","m","u","m","_","c","l","e","a","r","a","n","c","e","_","b","e","t","w","e","e","n","_","p","a","r","t","s","_","m","m">>
K_OVERHANG == <<"o","v","e","r","h","a","n","g","_","m","a","x","_","a","n","g","l","e","_","d","e","g">>
K_PREF == <<"p","r","e","f","e","r","r","e","d","_","f","i","l","e","_","f","o","r","m","a","t">>
K_ALT == <<"a","l","t","e","r","n","a","t","e","_","f","i","l","e","_","f","o","r","m","a","t","s">>

ModelSize == <<"M","o","d","e","l"," ","s","i","z","e"," ">>

-----------------------------------------------------------------------------
(* Python values.  One record shape for all of them; kind tells which      *)
(* field is meant.  A dict is an insertion-ordered tuple of <<key, value>>. *)

Value(kind, n, b, entries, s, items) ==
    [s |-> s, kind |-> kind, n |-> n, b |-> b, entries |-> entries, items |-> items]

None == Value("none", 0, FALSE, <<>>, <<>>, <<>>)
Num(n) == Value("num", n, FALSE, <<>>, <<>>, <<>>)
Bool(b) == Value("bool", 0, b, <<>>, <<>>, <<>>)
\* a dict, e.g. {"X": 1, "Y": 1, "Z": 1}, or a whole model
Dict(entries) == Value("dict", 0, FALSE, entries, <<>>, <<>>)
Str(s) == Value("str", 0, FALSE, <<>>, s, <<>>)
\* a list of strings
List(items) == Value("list", 0, FALSE, <<>>, <<>>, items)

\* dict.get(key): the value stored under key, else None
Get(d, key) ==
    IF \E i \in 1..Len(d) : d[i][1] = key
    THEN d[CHOOSE i \in 1..Len(d) : d[i][1] = key][2]
    ELSE None

\* dict.get(axis) on a dict of numbers: <<found, number>>
HasAxis(axes, axis) == \E i \in 1..Len(axes) : axes[i][1] = axis
AxisValue(axes, axis) == axes[CHOOSE i \in 1..Len(axes) : axes[i][1] = axis][2]

\* d[key] = value on a copy of d: replaces in place, else appends
Put(d, key, value) ==
    IF \E i \in 1..Len(d) : d[i][1] = key
    THEN [i \in 1..Len(d) |-> IF d[i][1] = key THEN <<key, value>> ELSE d[i]]
    ELSE Append(d, <<key, value>>)

\* bool is a subclass of int: True is 1 and False is 0 in a comparison
IsNumber(v) == v.kind \in {"num", "bool"}
AsInt(v) == IF v.kind = "bool" THEN (IF v.b THEN 1 ELSE 0) ELSE v.n

RECURSIVE ListLess(_, _)
ListLess(l, m) ==
    IF m = <<>> THEN FALSE
    ELSE IF l = <<>> THEN TRUE
    ELSE IF Head(l) = Head(m) THEN ListLess(Tail(l), Tail(m))
    ELSE StrLess(Head(l), Head(m))

\* a <= b in place of a < b
PyLessOrEqual(a, b) ==
    IF IsNumber(a) /\ IsNumber(b)
    THEN (IF AsInt(a) <= AsInt(b) THEN "true" ELSE "false")
    ELSE IF a.kind = "str" /\ b.kind = "str"
    THEN (IF a.s = b.s \/ StrLess(a.s, b.s) THEN "true" ELSE "false")
    ELSE IF a.kind = "list" /\ b.kind = "list"
    THEN (IF a.items = b.items \/ ListLess(a.items, b.items) THEN "true" ELSE "false")
    ELSE "TypeError"

\* a < b: "true", "false", or "TypeError" when Python does not order the
\* two types
PyLess(a, b) ==
    IF IsNumber(a) /\ IsNumber(b)
    THEN (IF AsInt(a) < AsInt(b) THEN "true" ELSE "false")
    ELSE IF a.kind = "str" /\ b.kind = "str"
    THEN (IF StrLess(a.s, b.s) THEN "true" ELSE "false")
    ELSE IF a.kind = "list" /\ b.kind = "list"
    THEN (IF ListLess(a.items, b.items) THEN "true" ELSE "false")
    ELSE "TypeError"

\* bool(v)
Truthy(v) ==
    CASE v.kind = "none" -> FALSE
      [] v.kind = "num"  -> v.n # 0
      [] v.kind = "bool" -> v.b
      [] v.kind = "dict" -> v.entries # <<>>
      [] v.kind = "str"  -> v.s # <<>>
      [] v.kind = "list" -> v.items # <<>>

-----------------------------------------------------------------------------
(* validate(model, rules): validator.py                                    *)

\* One violation message, kept as the fields of its f-string.
Message(subject, value, text, bound) ==
    [value |-> value, subject |-> subject, text |-> text, bound |-> bound]

\* A message that is a fixed text.
Plain(text) == Message(<<>>, None, text, None)

\* the inner loop over the axes of max_model_size_mm
RECURSIVE AxisErrors(_, _)
AxisErrors(spec, model_value) ==
    IF spec = <<>> THEN <<>>
    ELSE (IF HasAxis(model_value, Head(spec)[1])
             /\ AxisValue(model_value, Head(spec)[1]) > Head(spec)[2]
          THEN << Message(ModelSize \o Head(spec)[1],
                          Num(AxisValue(model_value, Head(spec)[1])),
                          "exceeds maximum", Num(Head(spec)[2])) >>
          ELSE <<>>)
         \o AxisErrors(Tail(spec), model_value)

\* "if model_value < value", given the model's value for the rule's key:
\* the message appended, or the TypeError raised
Compare(lt, key, value, model_value) ==
    IF lt = "TypeError"
    THEN [raised |-> "TypeError", errors |-> <<>>]
    ELSE [raised |-> "none",
          errors |-> IF lt = "true"
                     THEN << Message(Capitalize(ReplaceUnderscore(key)),
                                     model_value, "is below minimum", value) >>
                     ELSE <<>>]

\* the body of the loop for one rule, given model.get(key): the messages
\* it appends, or the TypeError its comparison raises
RuleBody(key, value, model_value) ==
    IF model_value = None
    THEN [raised |-> "none", errors |-> <<>>]
    ELSE IF value.kind = "dict"
    THEN [raised |-> "none",
          errors |-> IF model_value.kind = "dict" /\ key = K_SIZE
                     THEN AxisErrors(value.entries, model_value.entries)
                     ELSE <<>>]
    ELSE Compare(PyLess(model_value, value), key, value, model_value)

RuleStep(key, value, model) == RuleBody(key, value, Get(model, key))

\* the loop over the rules, errors being the list built so far
RECURSIVE ValidateFrom(_, _, _)
ValidateNext(step, rule_values, model, errors) ==
    IF step.raised # "none" THEN step
    ELSE ValidateFrom(rule_values, model, errors \o step.errors)

ValidateFrom(rule_values, model, errors) ==
    IF rule_values = <<>> THEN [raised |-> "none", errors |-> errors]
    ELSE ValidateNext(RuleStep(Head(rule_values)[1], Head(rule_values)[2], model),
                      Tail(rule_values), model, errors)

\* validate(model, rules): the list returned, or the exception raised
validate(model, rule_values) == ValidateFrom(rule_values, model, <<>>)

\* "; ".join(errors)
Separator == Plain("; ")

RECURSIVE Join(_)
Join(errors) ==
    IF errors = <<>> THEN <<>>
    ELSE IF Len(errors) = 1 THEN errors
    ELSE <<Head(errors), Separator>> \o Join(Tail(errors))

-----------------------------------------------------------------------------
(* The CAD object handed to an export: what each capability the code       *)
(* probes does when it is looked up or called.                             *)
(*                                                                         *)
(*   valBox, dirBox    obj.val().BoundingBox() and obj.BoundingBox():      *)
(*                     [st, box] with st "absent", "raises" or "ok"        *)
(*   isValid, isClosed, hasOpenEdges   "absent", "raises", "true", "false" *)
(*   open_edges        the attribute: "absent", "truthy", "falsy"          *)
(*   solids            obj.solids: "absent", "raises", "ok" (solidIds)     *)
(*   children          obj.children: "absent", "ok" (childIds)             *)
(*   parts             per part: which capabilities it has                 *)
(*   intersect         what a.intersect(b) gives, per pair <<a, b>>        *)
(*   dist              what the distance method of a gives for b           *)
(*   faces             the three face accessors, in the order tried        *)
(***************************************************************************)

Box(st, x, y, z) == [st |-> st, xlen |-> x, ylen |-> y, zlen |-> z]
NoBox == Box("absent", 0, 0, 0)
BoxRaises == Box("raises", 0, 0, 0)

Part(hasIntersect, hasDistTo, hasDistance) ==
    [intersect |-> hasIntersect, distTo |-> hasDistTo, distance |-> hasDistance]

Dist(st, d) == [d |-> d, st |-> st]

\* a face: normalAt is "absent", "raises" or "ok"; normal (the attribute)
\* is "absent" or "ok"; angle is the angle, in degrees, between the
\* face's normal and the build axis
Face(normalAt, normal, angle) ==
    [normalAt |-> normalAt, normal |-> normal, angle |-> angle]

\* a face accessor: "absent", "raises", "ok" (a callable giving faces) or
\* "attr" (a list attribute)
Accessor(st, faces) == [st |-> st, faces |-> faces]
NoAccessor == Accessor("absent", <<>>)

\* a log entry: the probe invoked, and the check it was invoked for
Probe(check, name) == [check |-> check, probe |-> name]

Result(value, log) == [value |-> value, log |-> log]

\* the same result with its number as a value
NumResult(r) == Result(Num(r.value), r.log)

-----------------------------------------------------------------------------
(* Measurement providers: validator.py                                     *)

\* is_manifold(shape)
is_manifold(g) ==
    LET v == IF g.isValid # "absent" THEN <<Probe("manifold", "isValid")>> ELSE <<>>
        c == IF g.isClosed # "absent" THEN <<Probe("manifold", "isClosed")>> ELSE <<>>
    IN  IF g.isValid \in {"false", "raises"} THEN Result(FALSE, v)
        ELSE IF g.isClosed \in {"false", "raises"} THEN Result(FALSE, v \o c)
        ELSE Result(TRUE, v \o c)

\* shape_has_open_edges(shape)
shape_has_open_edges(g) ==
    IF g.hasOpenEdges # "absent"
    THEN Result(g.hasOpenEdges \in {"true", "raises"}, <<Probe("open_edges", "hasOpenEdges")>>)
    ELSE IF g.open_edges # "absent"
    THEN Result(g.open_edges = "truthy", <<Probe("open_edges", "open_edges")>>)
    ELSE Result(FALSE, <<>>)

\* the pairs (shape1, shape2) in the order of the two nested loops
RECURSIVE PairsOf(_)
PairsOf(solids) ==
    IF Len(solids) < 2 THEN <<>>
    ELSE [k \in 1..(Len(solids) - 1) |-> <<solids[1], solids[k + 1]>>]
         \o PairsOf(Tail(solids))

Select(seq, Keep(_)) == SelectSeq(seq, Keep)

\* the list of solids both assembly checks start from: solids(), else the
\* children that have the capability asked for
SolidsOf(g, check, HasCap(_)) ==
    LET called == g.solids # "absent"
        fromSolids == IF g.solids = "ok" THEN g.solidIds ELSE <<>>
        useChildren == fromSolids = <<>> /\ g.children # "absent"
    IN  Result(IF useChildren THEN Select(g.childIds, HasCap) ELSE fromSolids,
               (IF called THEN <<Probe(check, "solids")>> ELSE <<>>)
               \o (IF useChildren THEN <<Probe(check, "children")>> ELSE <<>>))

\* the test with a raising intersect counted as an intersection
IntersectResultStrict(r, invoked) ==
    IF r = "None"
    THEN Result(FALSE, invoked)
    ELSE IF r \in {"isNull_true", "isNull_false", "isNull_raises"}
    THEN Result(r # "isNull_true", invoked \o <<Probe("intersections", "isNull")>>)
    ELSE IF r \in {"Volume_zero", "Volume_nonzero", "Volume_raises"}
    THEN Result(r # "Volume_zero", invoked \o <<Probe("intersections", "Volume")>>)
    ELSE Result(TRUE, invoked)

\* the test of one a.intersect(b) result r, invoked being the probes
\* called so far for the pair
IntersectResult(r, invoked) ==
    IF r \in {"raises", "None"}
    THEN Result(FALSE, invoked)
    ELSE IF r \in {"isNull_true", "isNull_false", "isNull_raises"}
    THEN Result(r # "isNull_true", invoked \o <<Probe("intersections", "isNull")>>)
    ELSE IF r \in {"Volume_zero", "Volume_nonzero", "Volume_raises"}
    THEN Result(r # "Volume_zero", invoked \o <<Probe("intersections", "Volume")>>)
    ELSE Result(TRUE, invoked)

\* what the loop body of assembly_has_intersections does with one pair:
\* whether the pair counts as intersecting, and the probes it calls
IntersectPair(g, a, b) ==
    IF ~g.parts[a].intersect THEN Result(FALSE, <<>>)
    ELSE IntersectResult(g.intersect[<<a, b>>], <<Probe("intersections", "intersect")>>)

\* the loop over the pairs, log being the probes called so far
RECURSIVE IntersectFrom(_, _, _)
IntersectNext(here, g, pairs, log) ==
    IF here.value THEN Result(TRUE, log \o here.log)
    ELSE IntersectFrom(g, pairs, log \o here.log)

IntersectFrom(g, pairs, log) ==
    IF pairs = <<>> THEN Result(FALSE, log)
    ELSE IntersectNext(IntersectPair(g, Head(pairs)[1], Head(pairs)[2]),
                       g, Tail(pairs), log)

\* assembly_has_intersections(assembly), given the solids enumerated
IntersectionsAmong(solids, g) ==
    IntersectFrom(g, PairsOf(solids.value), solids.log)

HasIntersect(g, id) == g.parts[id].intersect

\* assembly_has_intersections(assembly)
assembly_has_intersections(g) ==
    LET Keep(id) == HasIntersect(g, id)
    IN  IntersectionsAmong(SolidsOf(g, "intersections", Keep), g)

\* one direction of one pair: the distance appended to dists, if any
DistProbe(g, a, b) ==
    IF ~(g.parts[a].distTo \/ g.parts[a].distance) THEN Result(None, <<>>)
    ELSE Result(IF g.dist[<<a, b>>].st = "ok" THEN Num(g.dist[<<a, b>>].d) ELSE None,
                <<Probe("clearance", "distance")>>)

\* min() of None-or-number values, None standing for "no value yet"
MinOf(x, y) ==
    IF x = None THEN y
    ELSE IF y = None THEN x
    ELSE IF y.n < x.n THEN y ELSE x

\* the loop over the pairs: min_dist and the probes called so far
RECURSIVE ClearanceFrom(_, _, _, _)
ClearanceNext(ab, ba, g, pairs, min_dist, log) ==
    ClearanceFrom(g, pairs, MinOf(min_dist, MinOf(ab.value, ba.value)),
                  log \o ab.log \o ba.log)

ClearanceFrom(g, pairs, min_dist, log) ==
    IF pairs = <<>> THEN Result(min_dist, log)
    ELSE ClearanceNext(DistProbe(g, Head(pairs)[1], Head(pairs)[2]),
                       DistProbe(g, Head(pairs)[2], Head(pairs)[1]),
                       g, Tail(pairs), min_dist, log)

\* assembly_minimum_clearance(assembly), given the solids enumerated
ClearanceAmong(solids, g) ==
    ClearanceFrom(g, PairsOf(solids.value), None, solids.log)

HasDistTo(g, id) == g.parts[id].distTo

\* assembly_minimum_clearance(assembly)
assembly_minimum_clearance(g) ==
    LET Keep(id) == HasDistTo(g, id)
    IN  ClearanceAmong(SolidsOf(g, "clearance", Keep), g)

\* the loop over ("faces", "Faces", "all_faces"): the faces found, log
\* being the probes called so far
RECURSIVE FacesFrom(_, _)
FacesFrom(accessors, log) ==
    IF accessors = <<>> THEN Result(<<>>, log)
    ELSE IF Head(accessors).st = "attr" THEN Result(Head(accessors).faces, log)
    ELSE IF Head(accessors).st = "absent" THEN FacesFrom(Tail(accessors), log)
    ELSE IF Head(accessors).st = "ok" /\ Head(accessors).faces # <<>>
    THEN Result(Head(accessors).faces, log \o <<Probe("overhang", "faces")>>)
    ELSE FacesFrom(Tail(accessors), log \o <<Probe("overhang", "faces")>>)

\* whether a face yields a normal: from normalAt(), else from .normal
HasNormal(face) == face.normalAt = "ok" \/ face.normal = "ok"

\* the loop over the faces: max_angle and the probes called so far
RECURSIVE MaxAngle(_, _, _)
MaxAngle(faces, max_angle, log) ==
    IF faces = <<>> THEN Result(max_angle, log)
    ELSE MaxAngle(Tail(faces),
                  IF HasNormal(Head(faces)) /\ Head(faces).angle > max_angle
                  THEN Head(faces).angle ELSE max_angle,
                  IF Head(faces).normalAt # "absent"
                  THEN log \o <<Probe("overhang", "normalAt")>> ELSE log)

\* shape_max_overhang_angle(shape), given the faces enumerated
OverhangOf(faces) ==
    IF faces.value = <<>> THEN Result(None, faces.log)
    ELSE NumResult(MaxAngle(faces.value, 0, faces.log))

\* shape_max_overhang_angle(shape)
shape_max_overhang_angle(g) == OverhangOf(FacesFrom(g.faces, <<>>))

-----------------------------------------------------------------------------
(* SaveValidator: save_validator.py                                        *)

Raised(kind, msg, log) == [raised |-> kind, log |-> log, msg |-> msg]
Passed(log) == Raised("none", <<>>, log)

\* the merge without the fallback to obj.BoundingBox()
CombinedModelNoFallback(model, rule_values, g) ==
    LET first == IF g.valBox.st # "absent"
                 THEN <<Probe("bounding_box", "val().BoundingBox")>> ELSE <<>>
        measured(b) == Put(model, K_SIZE,
                           Dict(<< <<<<"X">>, b.xlen>>, <<<<"Y">>, b.ylen>>, <<<<"Z">>, b.zlen>> >>))
    IN  IF Get(rule_values, K_SIZE) = None THEN Result(model, <<>>)
        ELSE IF g.valBox.st = "ok" THEN Result(measured(g.valBox), first)
        ELSE Result(model, first)

\* lines 40-57: the model validated, with the live bounding box merged in
\* when max_model_size_mm is configured and a bounding-box probe answers
CombinedModel(model, rule_values, g) ==
    LET first == IF g.valBox.st # "absent"
                 THEN <<Probe("bounding_box", "val().BoundingBox")>> ELSE <<>>
        second == IF g.dirBox.st # "absent"
                  THEN <<Probe("bounding_box", "BoundingBox")>> ELSE <<>>
        measured(b) == Put(model, K_SIZE,
                           Dict(<< <<<<"X">>, b.xlen>>, <<<<"Y">>, b.ylen>>, <<<<"Z">>, b.zlen>> >>))
    IN  IF Get(rule_values, K_SIZE) = None THEN Result(model, <<>>)
        ELSE IF g.valBox.st = "ok" THEN Result(measured(g.valBox), first)
        ELSE IF g.dirBox.st = "ok" THEN Result(measured(g.dirBox), first \o second)
        ELSE Result(model, first \o second)

\* lines 86-94: the overhang check, given the angle measured
OverhangTest(gt, angle, max_overhang, log) ==
    IF angle.value = None THEN Passed(log \o angle.log)
    ELSE IF gt = "TypeError" THEN Raised("TypeError", <<>>, log \o angle.log)
    ELSE IF gt = "true"
    THEN Raised("ValidationError",
                << Message(<<>>, angle.value, "Overhang angle exceeds maximum", max_overhang) >>,
                log \o angle.log)
    ELSE Passed(log \o angle.log)

OverhangMeasured(angle, max_overhang, log) ==
    OverhangTest(PyLess(max_overhang, angle.value), angle, max_overhang, log)

OverhangRule(max_overhang, g, log) ==
    IF max_overhang = None THEN Passed(log)
    ELSE OverhangMeasured(shape_max_overhang_angle(g), max_overhang, log)

OverhangCheck(rule_values, g, log) ==
    OverhangRule(Get(rule_values, K_OVERHANG), g, log)

\* lines 76-84: the clearance check, then the rest
ClearanceTest(lt, clearance, min_clear, rule_values, g, log) ==
    IF clearance.value = None THEN OverhangCheck(rule_values, g, log \o clearance.log)
    ELSE IF lt = "TypeError" THEN Raised("TypeError", <<>>, log \o clearance.log)
    ELSE IF lt = "true"
    THEN Raised("ValidationError",
                << Message(<<>>, clearance.value, "Clearance below minimum", min_clear) >>,
                log \o clearance.log)
    ELSE OverhangCheck(rule_values, g, log \o clearance.log)

ClearanceMeasured(clearance, min_clear, rule_values, g, log) ==
    ClearanceTest(PyLess(clearance.value, min_clear), clearance, min_clear,
                  rule_values, g, log)

ClearanceRule(min_clear, rule_values, g, log) ==
    IF min_clear = None \/ g.solids = "absent" THEN OverhangCheck(rule_values, g, log)
    ELSE ClearanceMeasured(assembly_minimum_clearance(g), min_clear, rule_values, g, log)

ClearanceCheck(rule_values, g, log) ==
    ClearanceRule(Get(rule_values, K_CLEAR), rule_values, g, log)

\* lines 72-74: the intersection check, then the rest
IntersectionTest(found, rule_values, g, log) ==
    IF found.value
    THEN Raised("ValidationError", <<Plain("Intersecting geometry detected")>>,
                log \o found.log)
    ELSE ClearanceCheck(rule_values, g, log \o found.log)

IntersectionCheck(rule_values, g, log) ==
    IF ~Truthy(Get(rule_values, K_INTERSECT)) THEN ClearanceCheck(rule_values, g, log)
    ELSE IntersectionTest(assembly_has_intersections(g), rule_values, g, log)

\* the open-edge test placed after the checks that follow it
OpenEdgeTestLast(open, rule_values, g, log) ==
    LET rest == IntersectionCheck(rule_values, g, log \o open.log)
    IN  IF rest.raised # "none" THEN rest
        ELSE IF open.value
        THEN Raised("ValidationError", <<Plain("Object contains open edges")>>, rest.log)
        ELSE rest

\* lines 68-70: the open-edge check, then the rest
OpenEdgeTest(open, rule_values, g, log) ==
    IF open.value
    THEN Raised("ValidationError", <<Plain("Object contains open edges")>>,
                log \o open.log)
    ELSE IntersectionCheck(rule_values, g, log \o open.log)

OpenEdgeCheck(rule_values, g, log) ==
    IF ~Truthy(Get(rule_values, K_OPEN)) THEN IntersectionCheck(rule_values, g, log)
    ELSE OpenEdgeTest(shape_has_open_edges(g), rule_values, g, log)

\* lines 64-66: the manifold check, then the rest
ManifoldTest(manifold, rule_values, g, log) ==
    IF ~manifold.value
    THEN Raised("ValidationError", <<Plain("Non-manifold geometry detected")>>,
                log \o manifold.log)
    ELSE OpenEdgeCheck(rule_values, g, log \o manifold.log)

ManifoldCheck(rule_values, g, log) ==
    IF ~Truthy(Get(rule_values, K_MANIFOLD)) THEN OpenEdgeCheck(rule_values, g, log)
    ELSE ManifoldTest(is_manifold(g), rule_values, g, log)

\* lines 59-61, then the structural checks
Evaluated(errors, rule_values, g, log) ==
    IF errors.raised # "none" THEN Raised(errors.raised, <<>>, log)
    ELSE IF errors.errors # <<>>
    THEN Raised("ValidationError", Join(errors.errors), log)
    ELSE ManifoldCheck(rule_values, g, log)

Combined(combined, rule_values, g) ==
    Evaluated(validate(combined.value, rule_values), rule_values, g, combined.log)

\* the attached model after _validate_obj, had line 40 not copied it
ModelAfterAliased(model, rule_values, g) ==
    IF model = None THEN model
    ELSE Dict(CombinedModel(model.entries, rule_values, g).value)

\* the attached model after _validate_obj: line 40 copies it
\* (combined_model = dict(model)) and lines 53-57 write to the copy
ModelAfter(model, rule_values, g) == model

\* _validate_obj without the early return for a missing model
ValidateObjAlways(model, rule_values, g) ==
    Combined(CombinedModel(model.entries, rule_values, g), rule_values, g)

\* SaveValidator._validate_obj(obj)
ValidateObj(model, rule_values, g) ==
    IF model = None THEN Passed(<<>>)
    ELSE Combined(CombinedModel(model.entries, rule_values, g), rule_values, g)

\* a file: absent, or present holding a mesh of tris triangles, or present
\* and not loadable as a mesh
File(exists, loadable, tris) == [exists |-> exists, loadable |-> loadable, tris |-> tris]
NoFile == File(FALSE, FALSE, 0)

\* "if tri_count > limit", given the mesh loaded
TriangleTest(gt, file, limit) ==
    IF gt = "TypeError" THEN Raised("TypeError", <<>>, <<>>)
    ELSE IF gt = "true"
    THEN Raised("ValidationError",
                << Message(<<>>, Num(file.tris), "Triangle count exceeds maximum", limit) >>,
                <<>>)
    ELSE Passed(<<>>)

TriangleLimit(limit, file) ==
    IF limit = None THEN Passed(<<>>)
    ELSE IF ~(file.exists /\ file.loadable) THEN Raised("LoadError", <<>>, <<>>)
    ELSE TriangleTest(PyLess(limit, Num(file.tris)), file, limit)

\* SaveValidator._check_triangle_count(file_name)
CheckTriangleCount(file, rule_values) == TriangleLimit(Get(rule_values, K_TRI), file)

\* str(fmt).lower().lstrip(".")
NormalFormat(fmt) == LStripDots(Lower(fmt))

\* what "for alt in alternates" iterates over: the items of a list, the
\* characters of a string
Alternates(v) ==
    IF ~Truthy(v) THEN <<>>
    ELSE IF v.kind = "str" THEN [i \in 1..Len(v.s) |-> <<v.s[i]>>]
    ELSE v.items

\* lines 113-121: the allow-list
Allowed(rule_values) ==
    LET preferred == Get(rule_values, K_PREF)
        alternates == Alternates(Get(rule_values, K_ALT))
        NonEmpty(alt) == alt # <<>>
        kept == SelectSeq(alternates, NonEmpty)
    IN  (IF Truthy(preferred) THEN <<NormalFormat(preferred.s)>> ELSE <<>>)
        \o [i \in 1..Len(kept) |-> NormalFormat(kept[i])]

\* Path(file_name).suffix.lower().lstrip(".")
Extension(name) == LStripDots(Lower(Suffix(name)))

Contains(seq, x) == \E i \in 1..Len(seq) : seq[i] = x

\* the test without "ext and": an empty extension is rejected too
FormatTestStrict(allowed, ext) ==
    IF allowed = <<>> THEN Passed(<<>>)
    ELSE IF ~Contains(allowed, ext)
    THEN Raised("ValidationError",
                << Message(Upper(ext), None, "File format is not supported", None) >>, <<>>)
    ELSE Passed(<<>>)

\* lines 122-126, given the allow-list and the extension
FormatTest(allowed, ext) ==
    IF allowed = <<>> THEN Passed(<<>>)
    ELSE IF ext # <<>> /\ ~Contains(allowed, ext)
    THEN Raised("ValidationError",
                << Message(Upper(ext), None, "File format is not supported", None) >>, <<>>)
    ELSE Passed(<<>>)

\* SaveValidator._validate_file_format(file_name)
ValidateFileFormat(file_name, rule_values) ==
    IF file_name = None THEN Passed(<<>>)
    ELSE FormatTest(Allowed(rule_values), Extension(file_name.s))

-----------------------------------------------------------------------------
(* The export entry points.                                                *)

EntryPoints == {"export", "cq_export", "export_stl", "export_step",
                "export_bin", "export_brep", "assembly_export", "assembly_save"}

\* the underlying call each entry point delegates to
Writer(ep) ==
    CASE ep = "export"          -> "cq.exporters.export"
      [] ep = "cq_export"       -> "cq.export"
      [] ep = "export_stl"      -> "exportStl"
      [] ep = "export_step"     -> "exportStep"
      [] ep = "export_bin"      -> "exportBin"
      [] ep = "export_brep"     -> "exportBrep"
      [] ep = "assembly_export" -> "Assembly.export"
      [] ep = "assembly_save"   -> "Assembly.save"

\* kwargs.get(name, default)
KwGet(kwargs, name, default) ==
    IF \E i \in 1..Len(kwargs) : kwargs[i][1] = name
    THEN kwargs[CHOOSE i \in 1..Len(kwargs) : kwargs[i][1] = name][2]
    ELSE default

\* args[0] if args else None
FirstArg(args) == IF args # <<>> THEN args[1] ELSE None

\* the destination as export and cq_export resolve it (lines 132-133)
GenericFileName(args, kwargs) ==
    KwGet(kwargs, "fileName", KwGet(kwargs, "fname", FirstArg(args)))

\* the destination as the other entry points resolve it (lines 150-151)
SpecificFileName(args, kwargs) == KwGet(kwargs, "fileName", FirstArg(args))

FileName(ep, args, kwargs) ==
    IF ep \in {"export", "cq_export"} THEN GenericFileName(args, kwargs)
    ELSE SpecificFileName(args, kwargs)

\* where the underlying writer puts its output: the destination it was
\* passed, under whichever name
WriterDest(args, kwargs) ==
    IF args # <<>> THEN args[1]
    ELSE KwGet(kwargs, "fileName", KwGet(kwargs, "fname", None))

\* the underlying writer: records the call and writes content (NoFile when
\* it writes nothing) to its destination
WriteTo(dest, fs, content) ==
    IF dest = None \/ ~content.exists THEN fs
    ELSE [fs EXCEPT ![dest.s] = content]

WriteFile(fs, args, kwargs, content) == WriteTo(WriterDest(args, kwargs), fs, content)

WriterCall(ep, args, kwargs) == [kwargs |-> kwargs, args |-> args, writer |-> Writer(ep)]

\* Path(file_name).unlink(missing_ok=True)
Unlink(fs, name) == [fs EXCEPT ![name] = NoFile]

Done(raised, msg, log, calls, fs) ==
    [files |-> fs, writes |-> calls, raised |-> raised, log |-> log, msg |-> msg]

\* lines 155-159: the triangle check has ended as check
AfterCheck(check, file_name, log, calls, fs) ==
    IF check.raised = "ValidationError"
    THEN Done(check.raised, check.msg, log, calls, Unlink(fs, file_name.s))
    ELSE Done(check.raised, check.msg, log, calls, fs)

\* lines 154-159: the check after exportStl has written
AfterStl(file_name, rule_values, log, calls, fs) ==
    IF file_name = None THEN Done("none", <<>>, log, calls, fs)
    ELSE AfterCheck(CheckTriangleCount(fs[file_name.s], rule_values),
                    file_name, log, calls, fs)

\* the writer is called, and for export_stl the file checked
Delegate(ep, file_name, args, kwargs, content, rule_values, log, fs) ==
    IF ep = "export_stl"
    THEN AfterStl(file_name, rule_values, log, <<WriterCall(ep, args, kwargs)>>,
                  WriteFile(fs, args, kwargs, content))
    ELSE Done("none", <<>>, log, <<WriterCall(ep, args, kwargs)>>,
              WriteFile(fs, args, kwargs, content))

\* _validate_file_format has ended as format
Formatted(format, ep, file_name, args, kwargs, content, rule_values, log, fs) ==
    IF format.raised # "none" THEN Done(format.raised, format.msg, log, <<>>, fs)
    ELSE Delegate(ep, file_name, args, kwargs, content, rule_values, log, fs)

Resolved(file_name, ep, args, kwargs, content, rule_values, log, fs) ==
    Formatted(ValidateFileFormat(file_name, rule_values), ep, file_name, args, kwargs,
              content, rule_values, log, fs)

\* the entry point going on to the writer whatever _validate_obj raised
ExportAfterIgnoring(checked, ep, args, kwargs, content, rule_values, fs) ==
    Resolved(FileName(ep, args, kwargs), ep, args, kwargs, content, rule_values,
             checked.log, fs)

\* lines 131-135 once _validate_obj has ended as checked: resolve and
\* check the destination, call the writer, and for export_stl check the
\* triangle count of what was written
ExportAfter(checked, ep, args, kwargs, content, rule_values, fs) ==
    IF checked.raised # "none"
    THEN Done(checked.raised, checked.msg, checked.log, <<>>, fs)
    ELSE Resolved(FileName(ep, args, kwargs), ep, args, kwargs, content, rule_values,
                  checked.log, fs)

\* One entry point of SaveValidator, run to its end: validate the object,
\* then the rest.
Export(ep, args, kwargs, content, model, rule_values, g, fs) ==
    ExportAfter(ValidateObj(model, rule_values, g), ep, args, kwargs, content,
                rule_values, fs)

-----------------------------------------------------------------------------
(* Operations.  call, outcome, result, writes and probes describe the last *)
(* operation performed; rules, obj, attached and files are the program's   *)
(* state.                                                                  *)

Call(op, via, args, kwargs, content, model) ==
    [model |-> model, kwargs |-> kwargs, args |-> args, content |-> content,
     op |-> op, via |-> via]

NoCall == Call("none", "none", <<>>, <<>>, NoFile, None)
NoOutcome == [raised |-> "none", msg |-> <<>>]
NoResult == [raised |-> "none", errors |-> <<>>]

\* SaveValidator.attach_model(obj, model), CadQueryWrapper.attach_model
AttachModel(via, model) ==
    /\ attached' = model
    /\ call' = Call("attach_model", via, <<>>, <<>>, NoFile, model)
    /\ outcome' = NoOutcome
    /\ result' = NoResult
    /\ writes' = <<>>
    /\ probes' = <<>>
    /\ UNCHANGED <<rules, obj, files>>

\* validate(model, rules), the module-level function
CallValidate(model) ==
    /\ call' = Call("validate", "validator", <<>>, <<>>, NoFile, model)
    /\ result' = validate(model.entries, rules)
    /\ outcome' = [raised |-> result'.raised, msg |-> <<>>]
    /\ writes' = <<>>
    /\ probes' = <<>>
    /\ UNCHANGED <<rules, obj, attached, files>>

\* Validator.validate(model), CadQueryWrapper.validate(model)
ValidatorValidate(via, model) ==
    \E errors \in {validate(model.entries, rules)} :
        /\ call' = Call("Validator.validate", via, <<>>, <<>>, NoFile, model)
        /\ result' = NoResult
        /\ outcome' = IF errors.raised # "none" THEN [raised |-> errors.raised, msg |-> <<>>]
                      ELSE IF errors.errors # <<>>
                      THEN [raised |-> "ValidationError", msg |-> Join(errors.errors)]
                      ELSE NoOutcome
        /\ writes' = <<>>
        /\ probes' = <<>>
        /\ UNCHANGED <<rules, obj, attached, files>>

\* SaveValidator.<ep>(obj, *args, **kwargs); via CadQueryWrapper the same
\* call, delegated to its saver
ExportCall(via, ep, args, kwargs, content) ==
    \E done \in {Export(ep, args, kwargs, content, attached, rules, obj, files)} :
        /\ call' = Call(ep, via, args, kwargs, content, attached)
        /\ outcome' = [raised |-> done.raised, msg |-> done.msg]
        /\ result' = NoResult
        /\ writes' = done.writes
        /\ probes' = done.log
        /\ files' = done.files
        /\ attached' = ModelAfter(attached, rules, obj)
        /\ UNCHANGED <<rules, obj>>

-----------------------------------------------------------------------------
(* Inputs.                                                                 *)

\* numbers range over 0..MaxValue
MaxValue == 2

Numbers == 0..MaxValue

X == <<"X">>
Y == <<"Y">>
Z == <<"Z">>

STL == <<"s","t","l">>
STEP == <<"s","t","e","p">>
OBJ == <<"o","b","j">>

\* all the sequences without a repeated key, of length at most n, over a
\* set of <<key, value>> entries
RECURSIVE DictsOver(_, _)
DictsOver(entries, n) ==
    IF n = 0 THEN {<<>>}
    ELSE LET shorter == DictsOver(entries, n - 1)
         IN  shorter \cup
             { Append(d, e) : d \in {x \in shorter : Len(x) = n - 1},
                              e \in entries }

UniqueKeys(d) == \A i, j \in 1..Len(d) : d[i][1] = d[j][1] => i = j

\* a sound solid: every capability present and answering
Sound ==
    [intersect |-> [p \in {<<1, 2>>, <<2, 1>>} |-> "isNull_true"],
     faces |-> <<Accessor("ok", <<Face("ok", "absent", 0)>>), NoAccessor, NoAccessor>>,
     isValid |-> "true", isClosed |-> "true",
     hasOpenEdges |-> "false", open_edges |-> "absent",
     solids |-> "ok", solidIds |-> <<1, 2>>,
     children |-> "absent", childIds |-> <<>>,
     parts |-> <<Part(TRUE, TRUE, FALSE), Part(TRUE, TRUE, FALSE)>>,
     dist |-> [p \in {<<1, 2>>, <<2, 1>>} |-> Dist("ok", MaxValue)],
     valBox |-> Box("ok", 1, 1, 1), dirBox |-> Box("ok", 1, 1, 1)]

A_STL == <<"a", ".">> \o STL
A_OBJ == <<"a", ".">> \o OBJ
A_STEP == <<"a", ".">> \o STEP
\* an upper-case extension, no extension, and a name that is all extension
A_STL_UPPER == <<"a", ".", "S", "T", "L">>
A_BARE == <<"a">>
DOT_STL == <<".">> \o STL

\* the file names a call may give
FileNames == {A_STL, A_OBJ, A_STEP, A_STL_UPPER, A_BARE, DOT_STL}

NoFiles == [name \in FileNames |-> NoFile]

-----------------------------------------------------------------------------
(* The evaluator alone: validate() and Validator.validate() applied to     *)
(* models and rule sets of every shape.                                    *)

ValidateRuleEntries ==
    { <<K_WALL, Num(n)>> : n \in Numbers \ {0} }
    \cup { <<K_TRI, Num(MaxValue)>>,
           <<K_SIZE, Dict(<< <<X, 1>>, <<Y, 1>>, <<Z, 1>> >>)>>,
           <<K_SIZE, Dict(<< <<Z, 1>>, <<X, 0>> >>)>>,
           <<K_WALL, Dict(<< <<X, 1>> >>)>>,
           <<K_MANIFOLD, Bool(TRUE)>>,
           <<K_PREF, Str(STL)>>,
           <<K_ALT, List(<<OBJ>>)>> }

ValidateRuleSets == { d \in DictsOver(ValidateRuleEntries, 2) : UniqueKeys(d) }

WallValues == { Num(n) : n \in Numbers } \cup { Dict(<< <<X, 1>> >>), Str(STL) }

SizeValues == { Dict(<< <<X, 2>>, <<Y, 0>>, <<Z, 0>> >>),
                Dict(<< <<Y, 2>>, <<Z, 2>> >>),
                Num(1) }

ValidateModels ==
    { Dict(<<>>) }
    \cup { Dict(<< <<K_WALL, w>> >>) : w \in WallValues }
    \cup { Dict(<< <<K_SIZE, v>> >>) : v \in SizeValues }
    \cup { Dict(<< <<K_WALL, w>>, <<K_SIZE, v>> >>) : w \in WallValues, v \in SizeValues }
    \cup { Dict(<< <<K_TRI, Num(n)>>, <<K_WALL, Num(0)>> >>) : n \in Numbers }
    \cup { Dict(<< <<K_MANIFOLD, Num(0)>> >>), Dict(<< <<K_PREF, Num(1)>> >>),
           Dict(<< <<K_PREF, Str(OBJ)>> >>), Dict(<< <<K_ALT, Num(1)>> >>) }

InitValidate ==
    /\ rules \in ValidateRuleSets
    /\ obj = Sound
    /\ attached = None
    /\ files = NoFiles
    /\ call = NoCall
    /\ outcome = NoOutcome
    /\ result = NoResult
    /\ writes = <<>>
    /\ probes = <<>>

NextValidate ==
    \/ \E m \in ValidateModels : CallValidate(m)
    \/ \E m \in ValidateModels, via \in {"Validator", "CadQueryWrapper"} :
           ValidatorValidate(via, m)

SpecValidate == InitValidate /\ [][NextValidate]_vars

-----------------------------------------------------------------------------
(* The export gate: every entry point, through SaveValidator and through   *)
(* CadQueryWrapper, on objects with and without an attached model.         *)

\* an object with none of the probed capabilities (the tests' DummyShape)
DummyShape ==
    [Sound EXCEPT !.valBox = NoBox, !.dirBox = NoBox,
                  !.isValid = "absent", !.isClosed = "absent",
                  !.hasOpenEdges = "absent",
                  !.solids = "absent", !.solidIds = <<>>,
                  !.faces = <<NoAccessor, NoAccessor, NoAccessor>>]

\* a solid whose validity predicate reports invalid
Invalid == [Sound EXCEPT !.isValid = "false"]

\* a solid longer along X than the limits used here (the tests'
\* DummyBBoxShape(2, 0.5, 0.5))
Big == [Sound EXCEPT !.valBox = Box("ok", 2, 0, 0)]

XYZ1 == Dict(<< <<X, 1>>, <<Y, 1>>, <<Z, 1>> >>)

GateRuleSets ==
    { << <<K_WALL, Num(1)>> >>,
      << <<K_WALL, Num(1)>>, <<K_SIZE, XYZ1>> >>,
      << <<K_SIZE, XYZ1>>, <<K_WALL, Num(1)>> >>,
      << <<K_WALL, Num(1)>>, <<K_PREF, Str(STL)>>, <<K_ALT, List(<<STEP>>)>> >>,
      << <<K_MANIFOLD, Bool(TRUE)>>, <<K_OPEN, Bool(TRUE)>>, <<K_INTERSECT, Bool(TRUE)>>,
         <<K_CLEAR, Num(1)>>, <<K_OVERHANG, Num(1)>> >>,
      << <<K_WALL, Num(1)>>, <<K_MANIFOLD, Bool(TRUE)>>, <<K_TRI, Num(1)>> >> }

GateObjects == {DummyShape, Invalid, Big}

GateModels ==
    { Dict(<< <<K_WALL, Num(0)>> >>),
      Dict(<< <<K_WALL, Num(1)>> >>),
      Dict(<< <<K_WALL, Num(0)>>, <<K_SIZE, Dict(<< <<X, 2>>, <<Y, 2>> >>)>> >>) }

\* the ways a call names its destination: not at all, as the first
\* positional argument (alone, or followed by further arguments), or
\* under one of the keywords fileName and fname
NoName == [kwargs |-> <<>>, args |-> <<>>]
Positional(n) == [kwargs |-> <<>>, args |-> <<Str(n)>>]
PositionalAndMore(n) ==
    [kwargs |-> << <<"tolerance", Num(1)>> >>, args |-> <<Str(n), Num(1)>>]
Keyword(k, n) == [kwargs |-> << <<k, Str(n)>> >>, args |-> <<>>]

GateArgs ==
    { NoName, PositionalAndMore(A_STL), Keyword("fileName", A_OBJ), Keyword("fname", A_OBJ) }

Init ==
    /\ rules \in GateRuleSets
    /\ obj \in GateObjects
    /\ attached = None
    /\ files = NoFiles
    /\ call = NoCall
    /\ outcome = NoOutcome
    /\ result = NoResult
    /\ writes = <<>>
    /\ probes = <<>>

Next ==
    \/ \E via \in {"SaveValidator", "CadQueryWrapper"}, m \in GateModels :
           AttachModel(via, m)
    \/ \E via \in {"SaveValidator", "CadQueryWrapper"}, ep \in EntryPoints,
          a \in GateArgs :
           ExportCall(via, ep, a.args, a.kwargs, NoFile)

Spec == Init /\ [][Next]_vars

-----------------------------------------------------------------------------
(* The file-format gate: every entry point, destinations of every shape,   *)
(* given in every way, under rule sets with and without format lists.      *)

FormatRuleSets ==
    { << <<K_PREF, Str(STL)>> >>,
      << <<K_PREF, Str(<<".">> \o Upper(STL))>> >>,
      << <<K_ALT, List(<<OBJ, Capitalize(STEP)>>)>> >>,
      << <<K_PREF, Str(STL)>>, <<K_ALT, List(<<OBJ>>)>> >>,
      << <<K_PREF, Str(<<>>)>>, <<K_ALT, List(<<>>)>> >>,
      << <<K_WALL, Num(1)>> >> }

FormatArgs ==
    { NoName }
    \cup { Positional(n) : n \in FileNames }
    \cup { Keyword(k, n) : k \in {"fileName", "fname"}, n \in FileNames }

InitFormat ==
    /\ rules \in FormatRuleSets
    /\ obj = DummyShape
    /\ attached = None
    /\ files = NoFiles
    /\ call = NoCall
    /\ outcome = NoOutcome
    /\ result = NoResult
    /\ writes = <<>>
    /\ probes = <<>>

NextFormat ==
    \/ AttachModel("SaveValidator", Dict(<<>>))
    \/ \E ep \in EntryPoints, a \in FormatArgs :
           ExportCall("SaveValidator", ep, a.args, a.kwargs, NoFile)

SpecFormat == InitFormat /\ [][NextFormat]_vars

-----------------------------------------------------------------------------
(* The triangle budget: writers that leave a mesh of every size, or a file *)
(* the mesh loader cannot load, at destinations given in every way.        *)

\* written meshes have 0..MaxTriangles triangles
MaxTriangles == 2

MeshRuleSets ==
    { << <<K_TRI, Num(1)>> >>,
      << <<K_PREF, Str(STL)>>, <<K_TRI, Num(1)>> >>,
      << <<K_PREF, Str(STL)>> >> }

MeshEntryPoints == {"export", "export_stl", "export_step", "assembly_save"}

MeshArgs ==
    { NoName, Positional(A_STL), Keyword("fileName", A_STL), Keyword("fname", A_STL),
      Positional(A_OBJ), Keyword("fname", A_OBJ) }

\* what the writer leaves at its destination
MeshContents ==
    { File(TRUE, TRUE, t) : t \in 0..MaxTriangles } \cup { File(TRUE, FALSE, 0) }

InitMesh ==
    /\ rules \in MeshRuleSets
    /\ obj = DummyShape
    /\ attached = None
    /\ files = NoFiles
    /\ call = NoCall
    /\ outcome = NoOutcome
    /\ result = NoResult
    /\ writes = <<>>
    /\ probes = <<>>

NextMesh ==
    \E ep \in MeshEntryPoints, a \in MeshArgs, content \in MeshContents :
        ExportCall("SaveValidator", ep, a.args, a.kwargs, content)

SpecMesh == InitMesh /\ [][NextMesh]_vars

-----------------------------------------------------------------------------
(* The structural checks: objects that pass and fail each check in every   *)
(* combination, objects one of whose probes raises, under every choice of  *)
(* the structural rules.                                                   *)

\* Sound, made to fail the checks named in fails
Failing(fails) ==
    [Sound EXCEPT
        !.isValid = IF "manifold" \in fails THEN "false" ELSE @,
        !.hasOpenEdges = IF "open_edges" \in fails THEN "true" ELSE @,
        !.intersect = IF "intersections" \in fails
                      THEN [p \in {<<1, 2>>, <<2, 1>>} |-> "isNull_false"] ELSE @,
        !.dist = IF "clearance" \in fails
                 THEN [p \in {<<1, 2>>, <<2, 1>>} |-> Dist("ok", 0)] ELSE @,
        !.faces = IF "overhang" \in fails
                  THEN <<Accessor("ok", <<Face("ok", "absent", MaxValue)>>),
                         NoAccessor, NoAccessor>>
                  ELSE @]

Checks == {"manifold", "open_edges", "intersections", "clearance", "overhang"}

\* Sound with one probe raising
RaisingObjects ==
    { [Sound EXCEPT !.isValid = "raises"],
      [Sound EXCEPT !.isClosed = "raises"],
      [Sound EXCEPT !.hasOpenEdges = "raises"],
      [Sound EXCEPT !.intersect = [p \in {<<1, 2>>, <<2, 1>>} |-> "raises"]],
      [Sound EXCEPT !.intersect = [p \in {<<1, 2>>, <<2, 1>>} |-> "isNull_raises"]],
      [Sound EXCEPT !.intersect = [p \in {<<1, 2>>, <<2, 1>>} |-> "Volume_raises"]],
      [Sound EXCEPT !.dist = [p \in {<<1, 2>>, <<2, 1>>} |->
                                 IF p = <<1, 2>> THEN Dist("raises", 0) ELSE Dist("ok", 0)]],
      [Sound EXCEPT !.dist = [p \in {<<1, 2>>, <<2, 1>>} |-> Dist("raises", 0)]],
      [Sound EXCEPT !.solids = "raises"],
      [Sound EXCEPT !.faces = <<Accessor("raises", <<>>), NoAccessor, NoAccessor>>],
      [Sound EXCEPT !.faces = <<Accessor("ok", <<Face("raises", "absent", MaxValue)>>),
                                NoAccessor, NoAccessor>>],
      [Sound EXCEPT !.valBox = BoxRaises],
      [Sound EXCEPT !.valBox = BoxRaises, !.dirBox = BoxRaises] }

ProbeObjects == { Failing(fails) : fails \in SUBSET Checks } \cup RaisingObjects \cup {DummyShape}

\* the entry of the rule set for one structural check
StructuralRule(check, on) ==
    CASE check = "manifold"      -> <<K_MANIFOLD, Bool(on)>>
      [] check = "open_edges"    -> <<K_OPEN, Bool(on)>>
      [] check = "intersections" -> <<K_INTERSECT, Bool(on)>>
      [] check = "clearance"     -> <<K_CLEAR, Num(1)>>
      [] check = "overhang"      -> <<K_OVERHANG, Num(1)>>

CheckOrder == <<"manifold", "open_edges", "intersections", "clearance", "overhang">>

\* a rule set with the wall rule and the rules of the checks in present,
\* their flags set to on
StructuralRules(present, on) ==
    LET Present(check) == check \in present
        kept == SelectSeq(CheckOrder, Present)
    IN  << <<K_WALL, Num(1)>>, <<K_SIZE, XYZ1>> >>
        \o [i \in 1..Len(kept) |-> StructuralRule(kept[i], on)]

ProbeRuleSets ==
    { StructuralRules(present, TRUE) : present \in SUBSET Checks }
    \cup { StructuralRules(Checks, FALSE),
           << <<K_OVERHANG, Num(1)>>, <<K_OPEN, Bool(TRUE)>>, <<K_MANIFOLD, Bool(TRUE)>> >> }

\* a model that passes the wall rule, and one that violates it
ProbeModels == { Dict(<< <<K_WALL, Num(1)>> >>), Dict(<< <<K_WALL, Num(0)>> >>) }

ProbeEntryPoints == {"export", "export_stl", "assembly_save"}

InitProbes ==
    /\ rules \in ProbeRuleSets
    /\ obj \in ProbeObjects
    /\ attached = None
    /\ files = NoFiles
    /\ call = NoCall
    /\ outcome = NoOutcome
    /\ result = NoResult
    /\ writes = <<>>
    /\ probes = <<>>

NextProbes ==
    \/ \E m \in ProbeModels : AttachModel("SaveValidator", m)
    \/ \E ep \in ProbeEntryPoints :
           ExportCall("SaveValidator", ep, <<Str(A_STL)>>, <<>>, NoFile)

SpecProbes == InitProbes /\ [][NextProbes]_vars

-----------------------------------------------------------------------------
(* The live bounding box: objects whose two bounding-box accessors are     *)
(* absent, raise or answer, models with and without a size of their own.   *)

ValBoxes == {NoBox, BoxRaises, Box("ok", 1, 1, 1), Box("ok", MaxValue, 0, 0)}
DirBoxes == {NoBox, BoxRaises, Box("ok", 1, 1, 0), Box("ok", 0, MaxValue, 0)}

BoxObjects == { [DummyShape EXCEPT !.valBox = v, !.dirBox = d] : v \in ValBoxes, d \in DirBoxes }

BoxRuleSets ==
    { << <<K_SIZE, XYZ1>> >>,
      << <<K_WALL, Num(1)>> >>,
      << <<K_WALL, Num(1)>>, <<K_SIZE, XYZ1>> >> }

BoxModels ==
    { Dict(<<>>),
      Dict(<< <<K_SIZE, XYZ1>> >>),
      Dict(<< <<K_SIZE, Dict(<< <<X, MaxValue>>, <<Y, 0>>, <<Z, 0>> >>)>> >>),
      Dict(<< <<K_WALL, Num(0)>>, <<K_SIZE, Dict(<< <<Z, MaxValue>> >>)>> >>) }

BoxEntryPoints == {"export", "export_stl", "assembly_save"}

InitBox ==
    /\ rules \in BoxRuleSets
    /\ obj \in BoxObjects
    /\ attached = None
    /\ files = NoFiles
    /\ call = NoCall
    /\ outcome = NoOutcome
    /\ result = NoResult
    /\ writes = <<>>
    /\ probes = <<>>

NextBox ==
    \/ \E m \in BoxModels : AttachModel("SaveValidator", m)
    \/ \E ep \in BoxEntryPoints : ExportCall("CadQueryWrapper", ep, <<Str(A_STL)>>, <<>>, NoFile)
    \/ \E m \in BoxModels : CallValidate(m)
    \/ \E m \in BoxModels : ValidatorValidate("Validator", m)

SpecBox == InitBox /\ [][NextBox]_vars

-----------------------------------------------------------------------------
(* The clearance check: assemblies of three parts, enumerated through      *)
(* solids() or through children, whose distance probes answer, raise or    *)
(* are missing.                                                            *)

OrderedPairs == { p \in (1..3) \X (1..3) : p[1] # p[2] }

\* the distances between the parts: every probe answering MaxValue, but
Far == [p \in OrderedPairs |-> Dist("ok", MaxValue)]

ClearanceDistances ==
    { Far,
      [Far EXCEPT ![<<3, 2>>] = Dist("ok", 0)],
      [Far EXCEPT ![<<1, 2>>] = Dist("raises", 0), ![<<2, 1>>] = Dist("ok", 0)],
      [Far EXCEPT ![<<1, 2>>] = Dist("raises", 0), ![<<2, 1>>] = Dist("raises", 0),
                  ![<<1, 3>>] = Dist("ok", 1)],
      [p \in OrderedPairs |-> Dist("raises", 0)] }

\* how the parts are reached: <<solids, solidIds, children, childIds>>
ClearanceEnumerations ==
    { <<"ok", <<1, 2, 3>>, "absent", <<>>>>,
      <<"ok", <<>>, "ok", <<1, 2, 3>>>>,
      <<"ok", <<1>>, "ok", <<1, 2, 3>>>>,
      <<"absent", <<>>, "ok", <<1, 2, 3>>>>,
      <<"absent", <<>>, "absent", <<>>>> }

ClearanceObject(e, d, hasDistTo) ==
    [Sound EXCEPT !.solids = e[1], !.solidIds = e[2], !.children = e[3], !.childIds = e[4],
                  !.parts = [i \in 1..3 |-> Part(TRUE, hasDistTo, FALSE)],
                  !.intersect = [p \in OrderedPairs |-> "isNull_true"],
                  !.dist = d]

ClearanceObjects ==
    { ClearanceObject(e, d, TRUE) : e \in ClearanceEnumerations, d \in ClearanceDistances }
    \cup { ClearanceObject(e, Far, FALSE) : e \in ClearanceEnumerations }

ClearanceRuleSets ==
    { << <<K_CLEAR, Num(1)>> >>,
      << <<K_CLEAR, Num(MaxValue)>> >>,
      << <<K_MANIFOLD, Bool(TRUE)>>, <<K_INTERSECT, Bool(TRUE)>>, <<K_CLEAR, Num(1)>>,
         <<K_OVERHANG, Num(1)>> >> }

InitClearance ==
    /\ rules \in ClearanceRuleSets
    /\ obj \in ClearanceObjects
    /\ attached = None
    /\ files = NoFiles
    /\ call = NoCall
    /\ outcome = NoOutcome
    /\ result = NoResult
    /\ writes = <<>>
    /\ probes = <<>>

NextClearance ==
    \/ AttachModel("SaveValidator", Dict(<<>>))
    \/ \E ep \in {"export", "assembly_export", "assembly_save"} :
           ExportCall("SaveValidator", ep, <<Str(A_STEP)>>, <<>>, NoFile)

SpecClearance == InitClearance /\ [][NextClearance]_vars

-----------------------------------------------------------------------------
(* Properties.                                                             *)

\* the name a rule is reported under, as the tests spell it
C4_Label(key) ==
    IF key = K_WALL
    THEN <<"M","i","n","i","m","u","m"," ","w","a","l","l"," ","t","h","i","c","k","n","e","s","s"," ","m","m">>
    ELSE <<"M","a","x","i","m","u","m"," ","f","i","l","e"," ","t","r","i","a","n","g","l","e"," ","c","o","u","n","t">>

C4_AxisLabel(axis) == <<"M","o","d","e","l"," ","s","i","z","e"," ">> \o axis

\* what one rule is to contribute: nothing, one message for a number below
\* the minimum, or one message per axis above its limit
C4_Contribution(key, value, model) ==
    LET mv == Get(model, key)
        Over(e) == HasAxis(mv.entries, e[1]) /\ AxisValue(mv.entries, e[1]) > e[2]
        over == SelectSeq(value.entries, Over)
    IN  IF mv = None THEN <<>>
        ELSE IF value.kind = "num"
        THEN (IF mv.n < value.n
              THEN <<Message(C4_Label(key), mv, "is below minimum", value)>> ELSE <<>>)
        ELSE IF key = K_SIZE /\ mv.kind = "dict"
        THEN [i \in 1..Len(over) |->
                 Message(C4_AxisLabel(over[i][1]), Num(AxisValue(mv.entries, over[i][1])),
                         "exceeds maximum", Num(over[i][2]))]
        ELSE <<>>

RECURSIVE C4_Concat(_)
C4_Concat(seqs) ==
    IF seqs = <<>> THEN <<>>
    ELSE C4_Concat(SubSeq(seqs, 1, Len(seqs) - 1)) \o seqs[Len(seqs)]

C4_Expected(model, rule_values) ==
    C4_Concat([i \in 1..Len(rule_values) |->
                  C4_Contribution(rule_values[i][1], rule_values[i][2], model)])

\* every rule whose key the model carries is a number checked against a
\* number, or an axis mapping
C4_InScope(model, rule_values) ==
    \A i \in 1..Len(rule_values) :
        LET mv == Get(model, rule_values[i][1])
        IN  \/ mv = None
            \/ rule_values[i][2].kind = "dict"
            \/ rule_values[i][2].kind = "num" /\ mv.kind = "num"

C5_ValidateNeverRaises ==
    call.op = "validate" => result.raised = "none"

\* what the evaluator reports for the model attached when the call was made
C1_Evaluated == validate(CombinedModel(call.model.entries, rules, obj).value, rules)

\* msg is the messages of errors, in order, with "; " between neighbours
C1_IsJoined(msg, errors) ==
    /\ Len(msg) = 2 * Len(errors) - 1
    /\ \A i \in 1..Len(errors) : msg[2 * i - 1] = errors[i]
    /\ \A i \in 1..(Len(errors) - 1) : msg[2 * i] = Plain("; ")

\* neither the validation of the object nor the file-format gate raises
C1_FullyPasses ==
    /\ ValidateObj(call.model, rules, obj).raised = "none"
    /\ ValidateFileFormat(FileName(call.op, call.args, call.kwargs), rules).raised = "none"

\* C1: an export of an object with an attached model, through any entry
\* point of SaveValidator or CadQueryWrapper: when the evaluator reports
\* violations the call raises ValidationError with the messages joined by
\* "; " and the writer is not called; when validation passes the writer is
\* called exactly once with the caller's arguments; and it is called in no
\* other case.
C1_ExportGate ==
    (call.op \in EntryPoints /\ call.model # None)
        => /\ (C1_Evaluated.raised = "none" /\ C1_Evaluated.errors # <<>>)
                => /\ outcome.raised = "ValidationError"
                   /\ C1_IsJoined(outcome.msg, C1_Evaluated.errors)
                   /\ writes = <<>>
           /\ C1_FullyPasses
                => writes = << [kwargs |-> call.kwargs, args |-> call.args,
                                writer |-> Writer(call.op)] >>
           /\ ~C1_FullyPasses => writes = <<>>

\* an export through CadQueryWrapper rejected with three joined messages
C1_Witness ==
    /\ call.op \in EntryPoints
    /\ call.via = "CadQueryWrapper"
    /\ call.model # None
    /\ outcome.raised = "ValidationError"
    /\ Len(outcome.msg) = 5
    /\ writes = <<>>

\* the file-format gate rejects the destination of the call
C2_GateRejects ==
    ValidateFileFormat(FileName(call.op, call.args, call.kwargs), rules).raised
        = "ValidationError"

\* C2 (as stated): with no model attached every export delegates to the
\* writer, whatever the rules and the destination.
C2_NoModelAlwaysDelegates ==
    (call.op \in EntryPoints /\ call.model = None) => Len(writes) = 1

\* C2 (amended): with no model attached no probe is invoked and no
\* evaluator or structural check rejects the export, whatever the rules;
\* the export delegates to the writer unless the file-format gate rejects
\* the destination, and then it raises ValidationError before the write.
C2_NoModelPassThrough ==
    (call.op \in EntryPoints /\ call.model = None)
        => /\ probes = <<>>
           /\ IF C2_GateRejects
              THEN /\ outcome.raised = "ValidationError"
                   /\ outcome.msg[1].text = "File format is not supported"
                   /\ writes = <<>>
              ELSE Len(writes) = 1

\* an invalid solid with no model attached, exported under rules that
\* require manifold geometry: the writer is called
C2_Witness ==
    /\ call.op \in EntryPoints
    /\ call.model = None
    /\ obj = Invalid
    /\ Truthy(Get(rules, K_MANIFOLD))
    /\ Len(writes) = 1

\* two strings that differ at most in the case of their letters
C6_SameIgnoringCase(a, b) ==
    /\ Len(a) = Len(b)
    /\ \A i \in 1..Len(a) : a[i] = b[i] \/ LowerChar(a[i]) = b[i] \/ a[i] = LowerChar(b[i])

\* e is the extension of name: what follows the last dot of name, when
\* something precedes that dot and something follows it
C6_IsExtension(name, e) ==
    \E i \in 2..(Len(name) - 1) :
        /\ name[i] = "."
        /\ \A j \in (i + 1)..Len(name) : name[j] # "."
        /\ e = SubSeq(name, i + 1, Len(name))

C6_HasExtension(name) == \E i \in 2..(Len(name) - 1) : C6_IsExtension(name, SubSeq(name, i + 1, Len(name)))

\* the formats the rules list: the preferred one and the alternates, the
\* empty ones left out
C6_Formats ==
    ({Get(rules, K_PREF).s}
        \cup { Get(rules, K_ALT).items[i] : i \in 1..Len(Get(rules, K_ALT).items) })
    \ {<<>>}

\* fmt with its leading dot, if any, removed (the formats used here have
\* at most one)
C6_Undotted(fmt) == IF fmt # <<>> /\ fmt[1] = "." THEN Tail(fmt) ELSE fmt

\* the extension of name is one of the listed formats, case aside
C6_Allowed(name) ==
    \E fmt \in C6_Formats, i \in 2..(Len(name) - 1) :
        /\ C6_IsExtension(name, SubSeq(name, i + 1, Len(name)))
        /\ C6_SameIgnoringCase(SubSeq(name, i + 1, Len(name)), C6_Undotted(fmt))

C6_Rejected ==
    /\ outcome.raised = "ValidationError"
    /\ outcome.msg[1].text = "File format is not supported"

\* the destination the entry point resolved, None when it resolved none
C6_Name == FileName(call.op, call.args, call.kwargs)

\* C6 (as stated): with a destination resolved and a format list
\* configured, the writer runs only if the destination's extension is in
\* the allow-list; a destination without an extension is rejected too.
C6_OnlyListedExtensions ==
    (call.op \in EntryPoints /\ C6_Name # None /\ C6_Formats # {} /\ writes # <<>>)
        => C6_Allowed(C6_Name.s)

\* C6 (amended): with a destination resolved and a format list configured,
\* a destination whose extension is not empty and not in the allow-list
\* (compared without regard to case, leading dot stripped) makes the call
\* raise ValidationError before the writer runs; a destination with a
\* listed extension, or with no extension, passes the gate.  With no
\* destination resolved, or no format list configured, the gate never
\* rejects.
C6_FormatGate ==
    call.op \in EntryPoints
        => IF C6_Name # None /\ C6_Formats # {}
              /\ C6_HasExtension(C6_Name.s) /\ ~C6_Allowed(C6_Name.s)
           THEN C6_Rejected /\ writes = <<>>
           ELSE ~C6_Rejected /\ Len(writes) = 1

\* a destination without an extension written under a configured list
C6_Witness ==
    /\ call.op \in EntryPoints
    /\ C6_Name = Str(A_BARE)
    /\ C6_Formats # {}
    /\ Len(writes) = 1

\* C3: with a triangle limit configured, after export_stl has written to
\* the destination it resolved and has ended, in whatever way, the file
\* at the destination is absent or holds a mesh counted to be within the
\* limit.
C3_FileVerifiedOrAbsent ==
    (/\ call.op = "export_stl"
     /\ C6_Name # None
     /\ writes # <<>>
     /\ Get(rules, K_TRI).kind = "num")
        => \/ ~files[C6_Name.s].exists
           \/ /\ files[C6_Name.s].loadable
              /\ files[C6_Name.s].tris <= Get(rules, K_TRI).n

\* the destination the caller supplied, in whichever of the three ways
C7_Supplied == WriterDest(call.args, call.kwargs)

\* the same entry point given the same destination as its first positional
\* argument
C7_Positionally ==
    Export(call.op, <<C7_Supplied>>, <<>>, call.content, call.model, rules, obj, NoFiles)

\* C7: an export ends the same way (the file-format gate accepting or
\* rejecting, the triangle check run or not) whether its destination is
\* the first positional argument or is passed as fileName or as fname.
C7_SameHoweverSupplied ==
    (call.op \in EntryPoints /\ C7_Supplied # None)
        => outcome = [raised |-> C7_Positionally.raised, msg |-> C7_Positionally.msg]

\* whether any probe of g raises
C8_Abnormal(g) ==
    \/ "raises" \in {g.isValid, g.isClosed, g.hasOpenEdges, g.solids, g.valBox.st, g.dirBox.st}
    \/ \E p \in DOMAIN g.intersect : g.intersect[p] \in {"raises", "isNull_raises", "Volume_raises"}
    \/ \E p \in DOMAIN g.dist : g.dist[p].st = "raises"
    \/ \E i \in 1..Len(g.faces) :
           \/ g.faces[i].st = "raises"
           \/ \E j \in 1..Len(g.faces[i].faces) : g.faces[i].faces[j].normalAt = "raises"

\* g with every raising probe replaced by one that has no answer: the
\* capability missing, the call returning nothing
C8_Unavailable(g) ==
    [g EXCEPT
        !.isValid = IF g.isValid = "raises" THEN "absent" ELSE g.isValid,
        !.isClosed = IF g.isClosed = "raises" THEN "absent" ELSE g.isClosed,
        !.hasOpenEdges = IF g.hasOpenEdges = "raises" THEN "absent" ELSE g.hasOpenEdges,
        !.intersect = [p \in DOMAIN g.intersect |->
                          IF g.intersect[p] \in {"raises", "isNull_raises", "Volume_raises"}
                          THEN "None" ELSE g.intersect[p]],
        !.dist = [p \in DOMAIN g.dist |->
                     IF g.dist[p].st = "raises" THEN Dist("unavailable", 0) ELSE g.dist[p]],
        !.solidIds = IF g.solids = "raises" THEN <<>> ELSE g.solidIds,
        !.solids = IF g.solids = "raises" THEN "ok" ELSE g.solids,
        !.faces = [i \in 1..Len(g.faces) |->
                      IF g.faces[i].st = "raises" THEN Accessor("ok", <<>>)
                      ELSE Accessor(g.faces[i].st,
                                    [j \in 1..Len(g.faces[i].faces) |->
                                        IF g.faces[i].faces[j].normalAt = "raises"
                                        THEN Face("absent", g.faces[i].faces[j].normal,
                                                  g.faces[i].faces[j].angle)
                                        ELSE g.faces[i].faces[j]])],
        !.valBox = IF g.valBox.st = "raises" THEN NoBox ELSE g.valBox,
        !.dirBox = IF g.dirBox.st = "raises" THEN NoBox ELSE g.dirBox]

\* g with a raising isValid or isClosed answering "not valid", "not
\* closed", a raising hasOpenEdges answering "open edges", a raising isNull
\* or Volume answering "not null", and every other raising probe replaced
\* by one that has no answer
C8_Degraded(g) ==
    [C8_Unavailable(g) EXCEPT
        !.isValid = IF g.isValid = "raises" THEN "false" ELSE g.isValid,
        !.isClosed = IF g.isClosed = "raises" THEN "false" ELSE g.isClosed,
        !.hasOpenEdges = IF g.hasOpenEdges = "raises" THEN "true" ELSE g.hasOpenEdges,
        !.intersect = [p \in DOMAIN g.intersect |->
                          CASE g.intersect[p] = "raises" -> "None"
                            [] g.intersect[p] = "isNull_raises" -> "isNull_false"
                            [] g.intersect[p] = "Volume_raises" -> "Volume_nonzero"
                            [] OTHER -> g.intersect[p]]]

\* how the last export would have ended on the object g
C8_EndsAsOn(g) ==
    \E done \in {Export(call.op, call.args, call.kwargs, call.content, call.model,
                        rules, g, NoFiles)} :
        /\ outcome = [raised |-> done.raised, msg |-> done.msg]
        /\ writes = done.writes

C8_RejectedAs(text) ==
    /\ outcome = [raised |-> "ValidationError", msg |-> <<Plain(text)>>]
    /\ writes = <<>>

\* the export reaches the structural checks: a model is attached and the
\* evaluator finds no violation
C8_ReachesChecks ==
    /\ call.op \in EntryPoints
    /\ call.model # None
    /\ C1_Evaluated = [raised |-> "none", errors |-> <<>>]

C10_Rank(check) ==
    CASE check = "bounding_box"  -> 0
      [] check = "manifold"      -> 1
      [] check = "open_edges"    -> 2
      [] check = "intersections" -> 3
      [] check = "clearance"     -> 4
      [] check = "overhang"      -> 5

\* the rule governing check k is in the rule set (and, for a flag, true)
C10_Enabled(k) ==
    CASE k = 1 -> Truthy(Get(rules, K_MANIFOLD))
      [] k = 2 -> Truthy(Get(rules, K_OPEN))
      [] k = 3 -> Truthy(Get(rules, K_INTERSECT))
      [] k = 4 -> Get(rules, K_CLEAR) # None
      [] k = 5 -> Get(rules, K_OVERHANG) # None

\* the object fails check k
C10_Fails(k) ==
    CASE k = 1 -> obj.isValid \in {"false", "raises"} \/ obj.isClosed \in {"false", "raises"}
      [] k = 2 -> \/ obj.hasOpenEdges \in {"true", "raises"}
                  \/ obj.hasOpenEdges = "absent" /\ obj.open_edges = "truthy"
      [] k = 3 -> assembly_has_intersections(obj).value
      [] k = 4 -> /\ obj.solids # "absent"
                  /\ assembly_minimum_clearance(obj).value # None
                  /\ assembly_minimum_clearance(obj).value.n < Get(rules, K_CLEAR).n
      [] k = 5 -> /\ shape_max_overhang_angle(obj).value # None
                  /\ shape_max_overhang_angle(obj).value.n > Get(rules, K_OVERHANG).n

C10_Failing == { k \in 1..5 : C10_Enabled(k) /\ C10_Fails(k) }

C10_First == CHOOSE k \in C10_Failing : \A j \in C10_Failing : k <= j

\* the check the raised error names, 0 when it names none of the five
C10_Named ==
    IF outcome.raised # "ValidationError" \/ Len(outcome.msg) # 1 THEN 0
    ELSE CASE outcome.msg[1].text = "Non-manifold geometry detected" -> 1
           [] outcome.msg[1].text = "Object contains open edges"     -> 2
           [] outcome.msg[1].text = "Intersecting geometry detected" -> 3
           [] outcome.msg[1].text = "Clearance below minimum"        -> 4
           [] outcome.msg[1].text = "Overhang angle exceeds maximum" -> 5
           [] OTHER -> 0

C10_Probed(k) == \E i \in 1..Len(probes) : C10_Rank(probes[i].check) = k

\* C10: in an export of an object with an attached model, evaluator
\* violations are raised before any structural probe is invoked; otherwise
\* the error raised names the first of manifold, open edges,
\* intersections, clearance, overhang that is enabled and fails, probes
\* are invoked in that order and none after the failing check, and no
\* probe of a check whose rule is absent or false is invoked.
C10_ChecksInOrder ==
    (call.op \in EntryPoints /\ call.model # None)
        => /\ C1_Evaluated.errors # <<>>
                => /\ outcome.raised = "ValidationError"
                   /\ C10_Named = 0
                   /\ \A k \in 1..5 : ~C10_Probed(k)
           /\ C1_Evaluated.errors = <<>>
                => IF C10_Failing = {}
                   THEN outcome.raised = "none" /\ Len(writes) = 1
                   ELSE /\ C10_Named = C10_First
                        /\ writes = <<>>
                        /\ \A k \in 1..5 : k > C10_First => ~C10_Probed(k)
           /\ \A i, j \in 1..Len(probes) :
                  i < j => C10_Rank(probes[i].check) <= C10_Rank(probes[j].check)
           /\ \A k \in 1..5 : C10_Probed(k) => C10_Enabled(k)
           /\ (C10_Named = 1 /\ obj.isValid \in {"false", "raises"})
                => \A i \in 1..Len(probes) : probes[i].probe # "isClosed"

\* every rule present, an object failing two checks: the first is named
C10_Witness ==
    /\ call.op \in EntryPoints
    /\ call.model # None
    /\ \A k \in 1..5 : C10_Enabled(k)
    /\ C10_Failing = {2, 5}
    /\ C10_Named = 2
    /\ C10_Probed(1)
    /\ ~C10_Probed(3)

C14_CountLabel == <<"M","a","x","i","m","u","m"," ","f","i","l","e"," ","t","r","i","a","n","g","l","e"," ","c","o","u","n","t">>
C14_FlagLabel == <<"M","a","n","i","f","o","l","d"," ","g","e","o","m","e","t","r","y"," ","r","e","q","u","i","r","e","d">>

\* the messages of the last validate call that are about the rule so named
C14_MessagesAbout(label) ==
    { i \in 1..Len(result.errors) : result.errors[i].subject = label }

\* C14: validate reports nothing for the count rule when the model's count
\* is at or below the configured bound, and nothing for a flag rule
\* whatever the model carries under its key.
C14_CountAndFlagNeverBelowMinimum ==
    call.op = "validate"
        => /\ (/\ Get(rules, K_TRI).kind = "num"
               /\ Get(call.model.entries, K_TRI).kind = "num"
               /\ Get(call.model.entries, K_TRI).n <= Get(rules, K_TRI).n)
                  => C14_MessagesAbout(C14_CountLabel) = {}
           /\ Get(rules, K_MANIFOLD).kind = "bool" => C14_MessagesAbout(C14_FlagLabel) = {}

\* the bounding box the object yields: that of val().BoundingBox() when it
\* answers, else that of BoundingBox() when it answers
C11_Live ==
    IF obj.valBox.st = "ok" THEN obj.valBox
    ELSE IF obj.dirBox.st = "ok" THEN obj.dirBox
    ELSE NoBox

C11_IsSize(entry) == entry[1] = K_SIZE
C11_IsNotSize(entry) == entry[1] # K_SIZE

\* what the evaluator is to be given for the last export
C11_Measurement ==
    IF Get(rules, K_SIZE) # None /\ C11_Live.st = "ok"
    THEN SelectSeq(call.model.entries, C11_IsNotSize)
         \o << <<K_SIZE, Dict(<< <<X, C11_Live.xlen>>, <<Y, C11_Live.ylen>>,
                                 <<Z, C11_Live.zlen>> >>)>> >>
    ELSE call.model.entries

C11_ProbedBox(name) ==
    \E i \in 1..Len(probes) : probes[i] = Probe("bounding_box", name)

\* C11: in an export of an object with an attached model under a
\* max_model_size_mm rule, the size evaluated is the live bounding box, of
\* val().BoundingBox() or else of BoundingBox(), whenever one of them
\* answers, whatever size the model carries; when neither answers the
\* model is evaluated as attached.  Without the rule no bounding-box probe
\* is invoked.
C11_LiveBoxOverrides ==
    (call.op \in EntryPoints /\ call.model # None)
        => /\ \E expected \in {validate(C11_Measurement, rules)} :
                 IF expected.errors # <<>>
                 THEN outcome = [raised |-> "ValidationError", msg |-> Join(expected.errors)]
                 ELSE outcome.raised = "none"
           /\ Get(rules, K_SIZE) = None
                 => \A i \in 1..Len(probes) : probes[i].check # "bounding_box"
           /\ obj.valBox.st = "ok" => ~C11_ProbedBox("BoundingBox")
           /\ (Get(rules, K_SIZE) # None /\ obj.valBox.st = "raises" /\ obj.dirBox.st # "absent")
                 => C11_ProbedBox("val().BoundingBox") /\ C11_ProbedBox("BoundingBox")

\* a model whose own size is within the limits, rejected for the size the
\* second accessor reports after the first has raised
C11_Witness ==
    /\ call.op \in EntryPoints
    /\ Get(call.model.entries, K_SIZE) = XYZ1
    /\ Get(rules, K_SIZE) = XYZ1
    /\ obj.valBox.st = "raises"
    /\ obj.dirBox = Box("ok", 0, MaxValue, 0)
    /\ outcome.raised = "ValidationError"

\* a validate call or an export attempt
C12_Reads(c) == c.op \in EntryPoints \cup {"validate", "Validator.validate"}

C12_Step ==
    C12_Reads(call')
        => /\ attached' = attached
           /\ rules' = rules
           /\ (call' = call /\ C12_Reads(call))
                 => outcome' = outcome /\ writes' = writes /\ probes' = probes

C13_Solids ==
    IF obj.solids = "ok" /\ obj.solidIds # <<>> THEN obj.solidIds
    ELSE IF obj.children # "absent" THEN obj.childIds
    ELSE <<>>

\* the distances the probes of the pairs of solids yield, in either
\* direction
C13_Distances ==
    { obj.dist[<<C13_Solids[i], C13_Solids[j]>>].d :
        <<i, j>> \in { p \in (1..Len(C13_Solids)) \X (1..Len(C13_Solids)) :
                         /\ p[1] # p[2]
                         /\ obj.parts[C13_Solids[p[1]]].distTo
                         /\ obj.dist[<<C13_Solids[p[1]], C13_Solids[p[2]]>>].st = "ok" } }

\* the export reaches the clearance check with a numeric minimum
C13_ReachesClearance ==
    /\ C8_ReachesChecks
    /\ C10_Failing \cap {1, 2, 3} = {}
    /\ Get(rules, K_CLEAR).kind = "num"

\* C13: an export that reaches the clearance check is rejected for
\* clearance exactly when some pair of solids, enumerated through solids()
\* or else through children, yields in either direction a distance below
\* the configured minimum.
C13_RejectedIffBelowMinimum ==
    C13_ReachesClearance
        => (C10_Named = 4 <=> \E d \in C13_Distances : d < Get(rules, K_CLEAR).n)

====
